---- MODULE Spec2Model ----
(***************************************************************************)
(* llm-cli: a command-line front end to a chat-completion provider.        *)
(* The model follows src/llm_cli/core.py (run_model), src/llm_cli/cli.py   *)
(* (main) and src/llm_cli/utils.py (store, network and text helpers).      *)
(*                                                                         *)
(* A text (a Python str) is a sequence of one-character strings; a byte    *)
(* string is a sequence of integers 0..255.                                *)
(***************************************************************************)
EXTENDS Integers, Sequences, FiniteSets, TLC

(***************************************************************************)
(* Characters and their code points.                                       *)
(***************************************************************************)

\* The printable ASCII characters, code points 32..126, in order (code point 96
\* is written "grave").
Ascii ==
  << " ", "!", "\"", "#", "$", "%", "&", "'", "(", ")", "*", "+", ",", "-", ".", "/",
     "0", "1", "2", "3", "4", "5", "6", "7", "8", "9", ":", ";", "<", "=", ">", "?",
     "@", "A", "B", "C", "D", "E", "F", "G", "H", "I", "J", "K", "L", "M", "N", "O",
     "P", "Q", "R", "S", "T", "U", "V", "W", "X", "Y", "Z", "[", "\\", "]", "^", "_",
     "grave", "a", "b", "c", "d", "e", "f", "g", "h", "i", "j", "k", "l", "m", "n", "o",
     "p", "q", "r", "s", "t", "u", "v", "w", "x", "y", "z", "{", "|", "}", "~" >>

\* The characters of the model: printable ASCII, line feed, e acute.
Chars == { Ascii[i] : i \in 1..Len(Ascii) } \cup { "\n", "é" }

\* The code point of each character.
CodePoint ==
  [ c \in Chars |->
      IF c = "\n" THEN 10
      ELSE IF c = "é" THEN 233
      ELSE 31 + (CHOOSE i \in 1..Len(Ascii) : Ascii[i] = c) ]

\* Python's ord(c).
Ord(c) == CodePoint[c]

\* Python's chr(n), the inverse of Ord.
Chr(n) ==
  IF n = 10 THEN "\n"
  ELSE IF n = 233 THEN "é"
  ELSE Ascii[n - 31]

\* The code points Chr is defined on.
IsCodePoint(n) == n = 10 \/ n = 233 \/ (n >= 32 /\ n <= 126)

(***************************************************************************)
(* str.encode() / bytes.decode(): UTF-8, for code points below 2048.       *)
(***************************************************************************)

\* The bytes of each character in turn; the text is halved to keep the
\* evaluation shallow.
RECURSIVE Utf8Encode(_)
Utf8Encode(s) ==
  IF s = << >> THEN << >>
  ELSE IF Len(s) = 1
    THEN LET cp == Ord(s[1])
         IN  IF cp < 128 THEN << cp >>
             ELSE << 192 + (cp \div 64), 128 + (cp % 64) >>
  ELSE LET m == Len(s) \div 2
       IN  Utf8Encode(SubSeq(s, 1, m)) \o Utf8Encode(SubSeq(s, m + 1, Len(s)))

\* The failure values of the decoders (their exception paths): a text that is no
\* text of characters, a byte string that is no byte string.
BadText == << "malformed" >>

BadBytes == << -1 >>

\* A continuation byte, 10xxxxxx.
IsContinuation(x) == x >= 128 /\ x < 192

\* The characters of each one- or two-byte sequence in turn; the bytes are
\* halved at a character boundary to keep the evaluation shallow.
RECURSIVE Utf8Decode(_)
Utf8Decode(b) ==
  IF b = << >> THEN << >>
  ELSE IF Len(b) = 1
    THEN IF b[1] < 128 /\ IsCodePoint(b[1]) THEN << Chr(b[1]) >> ELSE BadText
  ELSE IF Len(b) = 2 /\ b[1] >= 128
    THEN LET cp == (b[1] - 192) * 64 + (b[2] - 128)
         IN  IF b[1] >= 194 /\ b[1] < 224 /\ IsContinuation(b[2]) /\ IsCodePoint(cp)
               THEN << Chr(cp) >>
               ELSE BadText
  ELSE LET half == Len(b) \div 2
           m == IF IsContinuation(b[half + 1]) /\ half + 1 < Len(b)
                  THEN half + 1 ELSE half
           left == Utf8Decode(SubSeq(b, 1, m))
           right == Utf8Decode(SubSeq(b, m + 1, Len(b)))
       IN  IF left = BadText \/ right = BadText THEN BadText ELSE left \o right

(***************************************************************************)
(* base64.b64encode / base64.b64decode (RFC 4648, with padding).           *)
(***************************************************************************)

B64Chars ==
  << "A", "B", "C", "D", "E", "F", "G", "H", "I", "J", "K", "L", "M", "N", "O", "P",
     "Q", "R", "S", "T", "U", "V", "W", "X", "Y", "Z", "a", "b", "c", "d", "e", "f",
     "g", "h", "i", "j", "k", "l", "m", "n", "o", "p", "q", "r", "s", "t", "u", "v",
     "w", "x", "y", "z", "0", "1", "2", "3", "4", "5", "6", "7", "8", "9", "+", "/" >>

B64Char(n) == B64Chars[n + 1]

B64Set == { B64Chars[i] : i \in 1..Len(B64Chars) }

B64Value == [ c \in B64Set |-> (CHOOSE i \in 1..Len(B64Chars) : B64Chars[i] = c) - 1 ]

IsB64Char(c) == c \in B64Set

B64Index(c) == B64Value[c]

\* Each group of three bytes gives four characters; a last group of one or
\* two bytes is padded with "=".
B64EncodeBytes(b) ==
  LET n == Len(b)
      byte(i) == IF i <= n THEN b[i] ELSE 0
  IN  [ q \in 1..(4 * ((n + 2) \div 3)) |->
          LET k == 3 * ((q - 1) \div 4)
              r == (q - 1) % 4
          IN  IF r = 0 THEN B64Char(byte(k + 1) \div 4)
              ELSE IF r = 1
                THEN B64Char((byte(k + 1) % 4) * 16 + (byte(k + 2) \div 16))
              ELSE IF r = 2
                THEN IF k + 2 > n THEN "="
                     ELSE B64Char((byte(k + 2) % 16) * 4 + (byte(k + 3) \div 64))
              ELSE IF k + 3 > n THEN "=" ELSE B64Char(byte(k + 3) % 64) ]

\* The bytes of a base64 text as b64encode writes them (whole groups of four
\* characters of the alphabet, "=" only to pad the last); BadBytes for any
\* other text.
B64DecodeBytes(t) ==
  LET n == Len(t)
      pad == IF n > 0 /\ t[n] = "=" THEN (IF n > 1 /\ t[n - 1] = "=" THEN 2 ELSE 1)
             ELSE 0
      val(i) == IF i <= n - pad THEN B64Index(t[i]) ELSE 0
  IN  IF n % 4 # 0 \/ (\E i \in 1..(n - pad) : ~IsB64Char(t[i])) THEN BadBytes
      ELSE [ p \in 1..(3 * (n \div 4) - pad) |->
               LET k == 4 * ((p - 1) \div 3)
                   r == (p - 1) % 3
               IN  IF r = 0 THEN val(k + 1) * 4 + (val(k + 2) \div 16)
                   ELSE IF r = 1
                     THEN (val(k + 2) % 16) * 16 + (val(k + 3) \div 4)
                   ELSE (val(k + 3) % 4) * 64 + val(k + 4) ]

\* utils.encode_base64: base64 of the UTF-8 bytes, as text.
encode_base64(s) == B64EncodeBytes(Utf8Encode(s))

\* utils.decode_base64: the text whose UTF-8 bytes the base64 text holds; the
\* empty text when decoding raises.
decode_base64(s) ==
  LET b == B64DecodeBytes(s)
  IN  IF b = BadBytes THEN << >>
      ELSE LET t == Utf8Decode(b)
           IN  IF t = BadText THEN << >> ELSE t

(***************************************************************************)
(* utils.get_urls: re.findall of                                           *)
(*   http[s]?://(?:[a-zA-Z]|[0-9]|[$-_@.&+]|[!*\\(\\),]|(?:%[0-9a-fA-F]{2}))+  *)
(***************************************************************************)

InRange(c, lo, hi) == Ord(lo) <= Ord(c) /\ Ord(c) <= Ord(hi)

\* One character of the pattern's repeated group.  "%" lies in the range $-_,
\* so the %hh alternative adds no character of its own.
UrlChars ==
  { c \in Chars :
      \/ InRange(c, "a", "z") \/ InRange(c, "A", "Z")
      \/ InRange(c, "0", "9")
      \/ InRange(c, "$", "_") \/ c \in {"@", ".", "&", "+"}
      \/ c \in {"!", "*", "\\", "(", ")", ","} }

IsUrlChar(c) == c \in UrlChars

StartsWith(t, i, lit) ==
  i + Len(lit) - 1 <= Len(t) /\ SubSeq(t, i, i + Len(lit) - 1) = lit

\* The index after the scheme "http://" or "https://" at position i, 0 if none.
SchemeEnd(t, i) ==
  IF StartsWith(t, i, << "h", "t", "t", "p", "s", ":", "/", "/" >>) THEN i + 8
  ELSE IF StartsWith(t, i, << "h", "t", "t", "p", ":", "/", "/" >>) THEN i + 7
  ELSE 0

\* The index after the longest run of URL characters that starts at k (greedy +).
RECURSIVE RunEnd(_, _)
RunEnd(t, k) == IF k <= Len(t) /\ IsUrlChar(t[k]) THEN RunEnd(t, k + 1) ELSE k

RECURSIVE FindAll(_, _)
FindAll(t, i) ==
  IF i > Len(t) THEN << >>
  ELSE LET k == SchemeEnd(t, i)
           e == IF k = 0 THEN 0 ELSE RunEnd(t, k)
       IN  IF k # 0 /\ e > k
             THEN << SubSeq(t, i, e - 1) >> \o FindAll(t, e)
             ELSE FindAll(t, i + 1)

get_urls(text) == FindAll(text, 1)

(***************************************************************************)
(* Bounds of the model and the inputs it draws.                            *)
(***************************************************************************)

\* The clock advances at most this many times.
MaxTicks == 1

\* The seconds by which the clock may advance in one step.
ClockSteps == {1}

\* The local time zone's offset from UTC, in seconds (UTC-1, UTC).
TzOffsets == {-3600, 0}

\* config["prompt"]: empty, plain text, a text with two URLs.
Prompts ==
  { << >>,
    << "h", "i" >>,
    << "h", "t", "t", "p", ":", "/", "/", "a", " ",
       "h", "t", "t", "p", "s", ":", "/", "/", "b" >> }

\* What the OS clipboard may hold.
ClipboardTexts == { << >>, << "é" >> }

\* config["conversation_timeout_minutes"].
Timeouts == {0, 1}

\* config["system_role"] (core.py:48 gives the default, abbreviated here).
SystemRoles == { << "A" >> }

\* The content of a chat-completion reply.
Replies == { << "o", "k" >> }

\* str() of the JSON a web search returns: an empty object, or one result
\* with a link in it.
EmptyDict == << "{", "}" >>

SearchPayloads ==
  { EmptyDict,
    << "{", "'", "u", "'", ":", " ", "'",
       "h", "t", "t", "p", ":", "/", "/", "c", "'", "}" >> }

\* The content the page reader returns for a page.
PageTexts == { << "p", "g" >> }

\* datetime.today().strftime("%d %B %Y") (core.py:129), an opaque text here.
Dates == { << "0", "3", " ", "N", "o", "v" >> }

\* The time at which the invocation starts, and the timestamps of the turns
\* earlier invocations stored: one minute before, and a second more.
StartTimes == {120}

PriorTimes == {59, 60}

(***************************************************************************)
(* The state.                                                              *)
(***************************************************************************)

VARIABLES
  table,      \* whether the conversations table exists in the db file
  db,         \* the rows of the table, in rowid order: [timestamp, role, content]
  clock,      \* int(time.time()): seconds since the epoch
  tz,         \* the local time zone's UTC offset in seconds
  nticks,     \* how often the clock has advanced
  argv,       \* the command line and config file main() was given
  pc,         \* where the invocation stands
  config,     \* the config dict run_model was called with
  new_prompt, \* core.py's new_prompt
  search_phrase, \* core.py's search_phrase
  search_results, \* core.py's search_results, as str() renders it
  down,       \* the URLs that do not answer 200 when probed
  excerpt,    \* the calls of get_centered_excerpt made on their own, each
              \* with its arguments and its result
  urls,       \* core.py's urls
  messages,   \* core.py's messages
  reply,      \* core.py's reply
  net,        \* the network requests this invocation has sent, in order: the
              \* endpoint kind, the function sending it, and its argument (the
              \* last message of a chat request, the search phrase, the URL)
  dbio,       \* the storage operations this invocation has run, in order,
              \* each with whether it took effect
  printed,    \* what this invocation has printed to stdout
  composed,   \* new_prompt as composed at core.py:59-66
  clipboard_content, \* core.py's clipboard_content
  db0,        \* db when the invocation started
  err         \* why the invocation ended early, "" if it has not

vars ==
  << table, db, clock, tz, nticks, argv, pc, config, new_prompt, search_phrase,
     search_results, down, excerpt, urls, messages, reply, net, dbio, printed,
     composed, clipboard_content, db0, err >>

\* The roles as texts.
RoleSystem == << "s", "y", "s", "t", "e", "m" >>

RoleUser == << "u", "s", "e", "r" >>

RoleAssistant == << "a", "s", "s", "i", "s", "t", "a", "n", "t" >>

(***************************************************************************)
(* The conversation store (utils.py:66-108).                               *)
(***************************************************************************)

\* An INSERT that would put the new row before the rows already stored.
InsertRow_Prepend(rows, now, role, content) ==
  << [ timestamp |-> now,
       role |-> encode_base64(role),
       content |-> encode_base64(content) ] >> \o rows

\* utils.insert_conversation's INSERT: a row stamped int(time.time()), role and
\* content base64-encoded; the rowid is the row's position.
InsertRow(rows, now, role, content) ==
  Append(rows, [ timestamp |-> now,
                 role |-> encode_base64(role),
                 content |-> encode_base64(content) ])

\* A WHERE clause that would leave out the rows stamped with the cutoff itself.
Selected_Strict(row, timestamp) == row.timestamp > timestamp

\* WHERE timestamp >= ?
Selected(row, timestamp) == row.timestamp >= timestamp

\* utils.get_conversations_after_timestamp: the SELECT's rows (rowid order),
\* decoded, as the pair (roles, contents).
RECURSIVE SelectRows(_, _)
SelectRows(rows, timestamp) ==
  IF rows = << >> THEN << >>
  ELSE (IF Selected(Head(rows), timestamp) THEN << Head(rows) >> ELSE << >>)
       \o SelectRows(Tail(rows), timestamp)

get_conversations_after_timestamp(rows, timestamp) ==
  LET sel == SelectRows(rows, timestamp)
  IN  << [ i \in 1..Len(sel) |-> decode_base64(sel[i].role) ],
         [ i \in 1..Len(sel) |-> decode_base64(sel[i].content) ] >>

\* utils.timestamp_n_minutes_ago: utcnow() is a naive datetime holding UTC wall
\* time, and .timestamp() reads a naive datetime as local time.
timestamp_n_minutes_ago(now, offset, n) == (now - offset) - n * 60

(***************************************************************************)
(* Prompt texts (core.py:59-66, 137-146, 159-170; utils.py:126-142).       *)
(* The fixed wording of each template is abbreviated; every line break and *)
(* every character next to an inserted value is kept.                      *)
(***************************************************************************)

\* A composition that would put the clipboard text first.
Compose_ClipboardFirst(prompt, clipboard) ==
  IF clipboard = << >> THEN prompt
  ELSE IF prompt = << >> THEN clipboard
  ELSE clipboard \o << ":", " " >> \o prompt

\* core.py:59-66, for a prompt that is not empty.
Compose(prompt, clipboard) ==
  IF clipboard = << >> THEN prompt
  ELSE IF prompt = << >> THEN clipboard
  ELSE prompt \o << ":", " " >> \o clipboard

\* utils.py:126-142, query_prompt.
QueryPrompt(prompt) ==
  << "\n", "i", "n", "p", "u", "t", ":", "\n", "\n", " " >> \o prompt \o << "\n", " " >>

\* core.py:137-146, the web-search prompt.
WebPrompt(prompt, today, results) ==
  << "\n", "q", "u", "e", "s", "t", "i", "o", "n", ":", " " >> \o prompt
  \o << "\n", "d", "a", "t", "e", " " >> \o today
  \o << ".", "\n", "-", "\n", " " >> \o results
  \o << "\n", "-", "\n", "N", "o", "w", ".", "\n" >>

\* core.py:159-170, the link-following prompt.
LinkPrompt(prompt, url_contents) ==
  << "\n", "q", ":", "\n", "-", "\n", " " >> \o prompt
  \o << "\n", "-", "\n", "c", ":", "\n", "-", "\n", " " >> \o url_contents
  \o << "\n", "-", "\n", "N", "o", "w", ".", "\n" >>

(***************************************************************************)
(* json.dumps(results, indent=4) of utils.get_url_contents (utils.py:237). *)
(***************************************************************************)

\* One character inside a JSON string (ensure_ascii).
JsonChar(c) ==
  IF c = "\"" THEN << "\\", "\"" >>
  ELSE IF c = "\\" THEN << "\\", "\\" >>
  ELSE IF c = "\n" THEN << "\\", "n" >>
  ELSE IF c = "é" THEN << "\\", "u", "0", "0", "e", "9" >>
  ELSE << c >>

RECURSIVE JsonEscape(_)
JsonEscape(t) ==
  IF t = << >> THEN << >> ELSE JsonChar(Head(t)) \o JsonEscape(Tail(t))

JsonString(t) == << "\"" >> \o JsonEscape(t) \o << "\"" >>

Indent4 == << " ", " ", " ", " " >>

JsonObject(r) ==
  Indent4 \o << "{", "\n" >>
  \o Indent4 \o Indent4 \o << "\"", "u", "r", "l", "\"", ":", " " >>
  \o JsonString(r.url) \o << ",", "\n" >>
  \o Indent4 \o Indent4
  \o << "\"", "c", "o", "n", "t", "e", "n", "t", "\"", ":", " " >>
  \o JsonString(r.content) \o << "\n" >>
  \o Indent4 \o << "}" >>

RECURSIVE JsonObjects(_)
JsonObjects(rs) ==
  IF Len(rs) = 1 THEN JsonObject(rs[1])
  ELSE JsonObject(Head(rs)) \o << ",", "\n" >> \o JsonObjects(Tail(rs))

JsonDumps(rs) ==
  IF rs = << >> THEN << "[", "]" >>
  ELSE << "[", "\n" >> \o JsonObjects(rs) \o << "\n", "]" >>

\* utils.get_url_contents: one {"url", "content"} object per URL, in order.
get_url_contents(us, contents) ==
  JsonDumps([ i \in 1..Len(us) |-> [ url |-> us[i], content |-> contents[i] ] ])

\* A check_for_unreachable that would return from inside its loop, having
\* probed the first URL only.
check_for_unreachable_First(us, dead) ==
  IF us # << >> /\ Head(us) \in dead THEN << Head(us) >> ELSE << >>

\* utils.check_for_unreachable: the URLs, in order, whose probe failed.
RECURSIVE check_for_unreachable(_, _)
check_for_unreachable(us, dead) ==
  IF us = << >> THEN << >>
  ELSE (IF Head(us) \in dead THEN << Head(us) >> ELSE << >>)
       \o check_for_unreachable(Tail(us), dead)

\* core.py:173-182, the outgoing message list.
BuildMessages(system_role, window, prompt) ==
  << [ role |-> RoleSystem, content |-> system_role ] >>
  \o [ i \in 1..Len(window[1]) |-> [ role |-> window[1][i], content |-> window[2][i] ] ]
  \o << [ role |-> RoleUser, content |-> prompt ] >>

(***************************************************************************)
(* Text helpers of the RAG answer (utils.py:264-292, core.py:109-122).     *)
(***************************************************************************)

\* str.lower() on one character.
LowerChar(c) == IF InRange(c, "A", "Z") THEN Chr(Ord(c) + 32) ELSE c

Lower(t) == [ i \in 1..Len(t) |-> LowerChar(t[i]) ]

IsSpace(c) == c \in {" ", "\n"}

\* str.strip().
RECURSIVE LStrip(_)
LStrip(t) == IF t # << >> /\ IsSpace(Head(t)) THEN LStrip(Tail(t)) ELSE t

RECURSIVE RStrip(_)
RStrip(t) ==
  IF t # << >> /\ IsSpace(t[Len(t)]) THEN RStrip(SubSeq(t, 1, Len(t) - 1)) ELSE t

Strip(t) == RStrip(LStrip(t))

\* str.find(sub): the least 0-based index at which sub occurs, -1 if none.
Find(t, sub) ==
  IF \E i \in 0..Len(t) : StartsWith(t, i + 1, sub)
    THEN CHOOSE i \in 0..Len(t) :
           /\ StartsWith(t, i + 1, sub)
           /\ \A j \in 0..(i - 1) : ~StartsWith(t, j + 1, sub)
    ELSE -1

Min(m, n) == IF m <= n THEN m ELSE n

Max(m, n) == IF m >= n THEN m ELSE n

\* text[start:end]: a negative index counts from the end, and both are
\* clipped to the text.
Slice(t, start, end) ==
  LET At(i) == IF i < 0 THEN Max(Len(t) + i, 0) ELSE Min(i, Len(t))
  IN  IF At(end) <= At(start) THEN << >> ELSE SubSeq(t, At(start) + 1, At(end))

Ellipsis == << ".", ".", "." >>

\* A get_centered_excerpt that would start the window a whole length, not
\* half of it, before the answer.
get_centered_excerpt_Uncentered(text, answer, length) ==
  LET idx == Find(Lower(text), Lower(answer))
  IN  IF idx >= 0
        THEN LET start == Max(idx - length, 0)
                 end   == start + length
             IN  (IF start > 0 THEN Ellipsis ELSE << >>)
                 \o Strip(Slice(text, start, end))
                 \o (IF end < Len(text) THEN Ellipsis ELSE << >>)
        ELSE Strip(Slice(text, 0, length))
             \o (IF Len(text) > length THEN Ellipsis ELSE << >>)

\* utils.get_centered_excerpt (utils.py:264-280).
get_centered_excerpt(text, answer, length) ==
  LET idx == Find(Lower(text), Lower(answer))
  IN  IF idx >= 0
        THEN LET start == Max(idx - (length \div 2), 0)
                 end   == start + length
             IN  (IF start > 0 THEN Ellipsis ELSE << >>)
                 \o Strip(Slice(text, start, end))
                 \o (IF end < Len(text) THEN Ellipsis ELSE << >>)
        ELSE Strip(Slice(text, 0, length))
             \o (IF Len(text) > length THEN Ellipsis ELSE << >>)

\* The 0-based index of the last occurrence of character c in t, -1 if none.
LastIndex(t, c) ==
  IF \E i \in 1..Len(t) : t[i] = c
    THEN (CHOOSE i \in 1..Len(t) : t[i] = c /\ \A j \in (i + 1)..Len(t) : t[j] # c) - 1
    ELSE -1

\* os.path.basename.
Basename(path) == Slice(path, LastIndex(path, "/") + 1, Len(path))

\* os.path.splitext(name)[0]: the name up to its last dot, unless only dots
\* precede that dot.
SplitextRoot(name) ==
  LET dot == LastIndex(name, ".")
  IN  IF dot > 0 /\ \E j \in 1..dot : name[j] # "."
        THEN Slice(name, 0, dot)
        ELSE name

\* str.rstrip('/').
RECURSIVE RStripSlash(_)
RStripSlash(t) ==
  IF t # << >> /\ t[Len(t)] = "/" THEN RStripSlash(SubSeq(t, 1, Len(t) - 1)) ELSE t

\* utils.format_source_link (utils.py:282-292).
format_source_link(path, style, rag_doc_dir) ==
  LET filename == SplitextRoot(Basename(path))
  IN  IF style = "wikilinks"
        THEN << "[", "[" >> \o filename \o << "]", "]" >>
        ELSE << "[" >> \o filename \o << "]", "(" >>
             \o RStripSlash(rag_doc_dir) \o << "/" >> \o path \o << ")" >>

\* str.replace('\n', ' ').
ReplaceNewlines(t) == [ i \in 1..Len(t) |-> IF t[i] = "\n" THEN " " ELSE t[i] ]

\* core.py:109-118: one (excerpt, link) per source document, first occurrence
\* of each pair kept.
RECURSIVE Dedupe(_, _)
Dedupe(pairs, seen) ==
  IF pairs = << >> THEN << >>
  ELSE IF Head(pairs) \in seen THEN Dedupe(Tail(pairs), seen)
  ELSE << Head(pairs) >> \o Dedupe(Tail(pairs), seen \cup { Head(pairs) })

RagSources(docs, answer, c) ==
  Dedupe([ i \in 1..Len(docs) |->
             << get_centered_excerpt(Strip(ReplaceNewlines(docs[i].page_content)),
                                     answer, c.rag_excerpt_length),
                format_source_link(docs[i].source, c.rag_source_linkformat,
                                   c.rag_doc_dir) >> ],
         { })

\* core.py:120-122, the RAG reply over the sources kept.
RECURSIVE SourceLines(_)
SourceLines(sources) ==
  IF sources = << >> THEN << >>
  ELSE << "-", " ", "\"" >> \o Head(sources)[1] \o << "\"", " " >>
       \o Head(sources)[2] \o << "\n" >> \o SourceLines(Tail(sources))

RagReply(answer, sources) ==
  << "\n", "A", "n", "s", "w", "e", "r", ":", " " >> \o answer
  \o << "\n", "\n", "S", "o", "u", "r", "c", "e", "s", ":", "\n" >>
  \o SourceLines(sources)

(***************************************************************************)
(* The config dict (cli.py:14-23, core.py:20-51, utils.py:294-320).        *)
(***************************************************************************)

\* The settings main() validates: options whose argparse default is None.
ProviderSettings == { "model", "provider_endpoint", "provider_api_key" }

RagSettings ==
  { "rag_doc_dir", "rag_endpoint", "rag_embed_model", "rag_answer_model", "rag_db_dir" }

Settings ==
  { "log_file", "db_file", "search_api_key", "page_reader_api_key" }
  \cup ProviderSettings \cup RagSettings

\* argparse defaults (core.py:24, 43).
DefaultTimeoutMinutes == 10

DefaultExcerptLength == 200

\* config["rag_excerpt_length"], config["rag_source_linkformat"] (core.py:45)
\* and config["rag_doc_dir"] as run_model may be given them.
ExcerptLengths == {3}

LinkFormats == {"markdown", "wikilinks"}

DocDir == << "/", "d", "/" >>

\* The config dicts run_model is called with directly.  `blank` holds the
\* settings whose value is the empty string.
Configs ==
  { c \in [ prompt : Prompts,
            allow_clipboard : BOOLEAN,
            rag : BOOLEAN,
            web_search : BOOLEAN,
            follow_links : BOOLEAN,
            conversation_timeout_minutes : Timeouts,
            system_role : SystemRoles,
            rag_excerpt_length : ExcerptLengths,
            rag_source_linkformat : LinkFormats,
            rag_doc_dir : { DocDir },
            blank : { {} } ] :
      ~c.rag => c.rag_source_linkformat = "markdown" }

NoConfig ==
  [ prompt |-> << >>, allow_clipboard |-> TRUE, rag |-> FALSE,
    web_search |-> FALSE, follow_links |-> FALSE,
    conversation_timeout_minutes |-> 0, system_role |-> << >>,
    rag_excerpt_length |-> 0, rag_source_linkformat |-> "markdown",
    rag_doc_dir |-> << >>, blank |-> {} ]

\* What the retrieval chain may return (core.py:101): the answer and the
\* source documents.
RagDoc == [ page_content |-> << "a", " ", "B", "\n", "c", " ", "d" >>,
            source |-> << "n", "/", "a", ".", "m", "d" >> ]

RagResponses ==
  { [ result |-> << "o", "k" >>, source_documents |-> << >> ],
    [ result |-> << "b" >>, source_documents |-> << RagDoc, RagDoc >> ] }

(***************************************************************************)
(* Initial states: the store as earlier invocations left it.               *)
(***************************************************************************)

\* What an earlier exchange wrote, each of its two appends having succeeded
\* or not.
PriorPrompt == << "é", "?" >>

PriorExchange(t1, t2, ok1, ok2) ==
  (IF ok1 THEN InsertRow(<< >>, t1, RoleUser, PriorPrompt) ELSE << >>)
  \o (IF ok2 THEN InsertRow(<< >>, t2, RoleAssistant, << "o", "k" >>) ELSE << >>)

PriorStores ==
  { [ table |-> FALSE, rows |-> << >> ], [ table |-> TRUE, rows |-> << >> ] }
  \cup { [ table |-> TRUE, rows |-> PriorExchange(t[1], t[2], ok[1], ok[2]) ] :
           t \in { u \in PriorTimes \X PriorTimes : u[1] <= u[2] },
           ok \in { o \in BOOLEAN \X BOOLEAN : o[1] \/ o[2] } }

NoArgv ==
  [ cli |-> {}, config_file |-> FALSE, file |-> {}, rag |-> FALSE,
    web_search |-> FALSE, follow_links |-> FALSE, prompt |-> << >> ]

InitInvocation ==
  /\ config = NoConfig
  /\ new_prompt = << >>
  /\ search_phrase = << >>
  /\ search_results = << >>
  /\ down = {}
  /\ excerpt = << >>
  /\ urls = << >>
  /\ messages = << >>
  /\ reply = << >>
  /\ net = << >>
  /\ dbio = << >>
  /\ printed = << >>
  /\ composed = << >>
  /\ clipboard_content = << >>
  /\ db0 = << >>
  /\ err = ""

Init ==
  /\ \E st \in PriorStores : table = st.table /\ db = st.rows
  /\ clock \in StartTimes
  /\ tz \in TzOffsets
  /\ nticks = 0
  /\ argv = NoArgv
  /\ pc = "idle"
  /\ InitInvocation

(***************************************************************************)
(* run_model (core.py:53-195), one action per blocking network call.       *)
(***************************************************************************)

invocation ==
  << config, new_prompt, search_phrase, search_results, down, urls, messages, reply, net, dbio,
     printed, composed, clipboard_content, db0, err >>

\* The invocation ends by an exception (or sys.exit) leaving run_model.
Abort(reason) == pc' = "aborted" /\ err' = reason

\* core.py:68, 127, 148: where run_model goes once the prompt is composed.
Dispatch(c) ==
  IF c.rag THEN "rag"
  ELSE IF c.web_search THEN "searchphrase"
  ELSE IF c.follow_links THEN "links"
  ELSE "assemble"

\* core.py:127-148: where run_model goes after the web search.
AfterWebSearch(c) == IF c.follow_links THEN "links" ELSE "assemble"

\* core.py:55-57: the clipboard is cleared unless allowed, then read.  A
\* PyperclipException in either call is logged and swallowed (the read then
\* yields ""); `cleared` says the clearing took effect, `pasted` is what the
\* clipboard would return.
get_clipboard_content(allow_clipboard, cleared, pasted) ==
  IF ~allow_clipboard /\ cleared THEN << >> ELSE pasted

\* sqlite3.connect(db_file) (utils.py:76, 85, 98): with the empty path every
\* connection is to a private temporary database, gone when it closes, so
\* nothing of the store is written or read.
Persistent(c) == "db_file" \notin c.blank

\* utils.setup_database (utils.py:66-81): CREATE TABLE IF NOT EXISTS; a
\* sqlite3.Error is logged and swallowed.  The operation counts as having
\* taken effect when the table exists afterwards.
setup_database(c, ok) ==
  /\ table' = (table \/ (ok /\ Persistent(c)))
  /\ dbio' = Append(dbio, [ op |-> "setup", ok |-> table' ])

\* core.py:59-66: the empty prompt raises ValueError, otherwise new_prompt is
\* composed and run_model goes on.
ComposeOrRaise(c) ==
  IF clipboard_content' = << >> /\ c.prompt = << >>
    THEN /\ Abort("empty")
         /\ UNCHANGED << new_prompt, composed >>
    ELSE /\ new_prompt' = Compose(c.prompt, clipboard_content')
         /\ composed' = new_prompt'
         /\ pc' = Dispatch(c)
         /\ err' = err

\* core.py:53-66: run_model(config) up to the composed prompt.
RunModel(c) ==
  /\ config' = c
  /\ db0' = db
  /\ \E ok \in BOOLEAN : setup_database(c, ok)
  /\ \E cleared \in BOOLEAN, pasted \in ClipboardTexts :
       clipboard_content' = get_clipboard_content(c.allow_clipboard, cleared, pasted)
  /\ ComposeOrRaise(c)
  /\ UNCHANGED << db, clock, tz, nticks, search_phrase, search_results, down, urls, messages, reply,
                  net, printed >>

\* run_model is called with a config dict.
Start ==
  /\ pc = "idle"
  /\ \E c \in Configs : RunModel(c)
  /\ UNCHANGED argv
  /\ UNCHANGED excerpt

\* core.py:69-124: the retrieval chain answers, or raises; the reply lists the
\* sources and is printed.
RagAnswer ==
  /\ pc = "rag"
  /\ net' = Append(net, [ kind |-> "rag", by |-> "qa_chain", arg |-> << >> ])
  /\ \/ /\ Abort("retrieval")
        /\ UNCHANGED << reply, printed >>
     \/ \E response \in RagResponses :
          /\ reply' = RagReply(response.result,
                               RagSources(response.source_documents,
                                          response.result, config))
          /\ printed' = Append(printed, reply')
          /\ pc' = "persist"
          /\ err' = err
  /\ UNCHANGED << table, db, clock, tz, nticks, argv, config, new_prompt,
                  search_phrase, search_results, down, urls, messages, dbio, composed,
                  clipboard_content, db0 >>
  /\ UNCHANGED excerpt

\* core.py:130, utils.make_searchphrase: one chat-completion request; any
\* exception yields the empty phrase.
MakeSearchphrase ==
  /\ pc = "searchphrase"
  /\ net' = Append(net, [ kind |-> "chat", by |-> "make_searchphrase",
                          arg |-> QueryPrompt(new_prompt) ])
  /\ search_phrase' \in Replies \cup { << >> }
  /\ pc' = "websearch"
  /\ UNCHANGED << table, db, clock, tz, nticks, argv, config, new_prompt,
                  search_results, down, urls, messages, reply, dbio, printed,
                  composed, clipboard_content, db0, err >>
  /\ UNCHANGED excerpt

\* core.py:136-146, utils.web_search: one GET; any exception yields {}.
WebSearch ==
  /\ pc = "websearch"
  /\ net' = Append(net, [ kind |-> "search", by |-> "web_search", arg |-> search_phrase ])
  /\ search_results' \in SearchPayloads
  /\ \E today \in Dates : new_prompt' = WebPrompt(new_prompt, today, search_results')
  /\ pc' = AfterWebSearch(config)
  /\ UNCHANGED << table, db, clock, tz, nticks, argv, config, search_phrase, down,
                  urls, messages, reply, dbio, printed, composed,
                  clipboard_content, db0, err >>
  /\ UNCHANGED excerpt

Range(f) == { f[i] : i \in DOMAIN f }

\* core.py:149-156, utils.check_for_unreachable: every URL is probed; if one is
\* unreachable run_model ends at core.py:156 (sys is not imported in core.py, so
\* it ends by NameError rather than SystemExit).
CheckLinks ==
  /\ pc = "links"
  /\ urls' = get_urls(new_prompt)
  /\ net' = net \o [ i \in 1..Len(urls') |->
                        [ kind |-> "probe", by |-> "check_for_unreachable", arg |-> urls'[i] ] ]
  /\ down' \in SUBSET Range(urls')
  /\ IF check_for_unreachable(urls', down') # << >>
       THEN Abort("unreachable")
       ELSE pc' = "fetch" /\ err' = err
  /\ UNCHANGED << table, db, clock, tz, nticks, argv, config, new_prompt,
                  search_phrase, search_results, messages, reply, dbio, printed, composed,
                  clipboard_content, db0 >>
  /\ UNCHANGED excerpt

\* core.py:158-170, utils.get_url_contents: one page-reader GET per URL; a
\* failed one yields "".
FetchContents ==
  /\ pc = "fetch"
  /\ net' = net \o [ i \in 1..Len(urls) |->
                        [ kind |-> "reader", by |-> "get_page_text", arg |-> urls[i] ] ]
  /\ \E contents \in [ 1..Len(urls) -> PageTexts \cup { << >> } ] :
       new_prompt' = LinkPrompt(new_prompt, get_url_contents(urls, contents))
  /\ pc' = "assemble"
  /\ UNCHANGED << table, db, clock, tz, nticks, argv, config, search_phrase,
                  search_results, down, urls, messages, reply, dbio, printed,
                  composed, clipboard_content, db0, err >>
  /\ UNCHANGED excerpt

\* core.py:172-187: the cutoff, the window, the message list.  On sqlite3.Error
\* get_conversations_after_timestamp returns None and zip(*None) raises.
Assemble ==
  /\ pc = "assemble"
  /\ \E ok \in BOOLEAN :
       /\ dbio' = Append(dbio, [ op |-> "select",
                                 ok |-> ok /\ table /\ Persistent(config) ])
       /\ IF ok /\ table /\ Persistent(config)
            THEN LET timestamp_cutoff ==
                       timestamp_n_minutes_ago(clock, tz,
                                               config.conversation_timeout_minutes)
                 IN  /\ messages' =
                          BuildMessages(config.system_role,
                                        get_conversations_after_timestamp(db, timestamp_cutoff),
                                        new_prompt)
                     /\ pc' = "send"
                     /\ err' = err
            ELSE Abort("storage") /\ messages' = messages
  /\ UNCHANGED << table, db, clock, tz, nticks, argv, config, new_prompt,
                  search_phrase, search_results, down, urls, reply, net, printed, composed,
                  clipboard_content, db0 >>
  /\ UNCHANGED excerpt

\* A send_request that would try again after an error.
SendRequest_Retry ==
  /\ pc = "send"
  /\ net' = Append(net, [ kind |-> "chat", by |-> "run_model",
                          arg |-> messages[Len(messages)].content ])
  /\ \/ /\ Len(net) < 2
        /\ UNCHANGED << pc, err, reply, printed >>
     \/ /\ Abort("provider")
        /\ UNCHANGED << reply, printed >>
     \/ /\ reply' \in Replies
        /\ printed' = Append(printed, reply')
        /\ pc' = "persist"
        /\ err' = err
  /\ UNCHANGED << table, db, clock, tz, nticks, argv, config, new_prompt,
                  search_phrase, search_results, down, urls, messages, dbio, composed,
                  clipboard_content, db0 >>
  /\ UNCHANGED excerpt

\* A send_request whose error would be logged and swallowed, run_model going
\* on with an empty reply.
SendRequest_Swallow ==
  /\ pc = "send"
  /\ net' = Append(net, [ kind |-> "chat", by |-> "run_model",
                          arg |-> messages[Len(messages)].content ])
  /\ \/ /\ err' = "provider"
        /\ reply' = << >>
     \/ /\ reply' \in Replies
        /\ err' = err
  /\ printed' = Append(printed, reply')
  /\ pc' = "persist"
  /\ UNCHANGED << table, db, clock, tz, nticks, argv, config, new_prompt,
                  search_phrase, search_results, down, urls, messages, dbio, composed,
                  clipboard_content, db0 >>
  /\ UNCHANGED excerpt

\* core.py:189-192, utils.send_request: one POST; an HTTP or transport error is
\* logged and re-raised, otherwise the reply is printed.
SendRequest ==
  /\ pc = "send"
  /\ net' = Append(net, [ kind |-> "chat", by |-> "run_model",
                          arg |-> messages[Len(messages)].content ])
  /\ \/ /\ Abort("provider")
        /\ UNCHANGED << reply, printed >>
     \/ /\ reply' \in Replies
        /\ printed' = Append(printed, reply')
        /\ pc' = "persist"
        /\ err' = err
  /\ UNCHANGED << table, db, clock, tz, nticks, argv, config, new_prompt,
                  search_phrase, search_results, down, urls, messages, dbio, composed,
                  clipboard_content, db0 >>
  /\ UNCHANGED excerpt

\* utils.insert_conversation (utils.py:83-94): one row stamped with the current
\* time; a sqlite3.Error is logged and swallowed.
insert_conversation(rows, ok, now, role, content) ==
  IF ok /\ table /\ Persistent(config)
    THEN InsertRow(rows, now, role, content)
    ELSE rows

\* A persistence step that would store the prompt as composed at core.py:61-66,
\* before the web-search and link-following templates were applied.
Persist_Composed ==
  /\ pc = "persist"
  /\ \E ok1 \in BOOLEAN, ok2 \in BOOLEAN, d \in {0} \cup ClockSteps :
       /\ d # 0 => nticks < MaxTicks
       /\ clock' = clock + d
       /\ nticks' = IF d # 0 THEN nticks + 1 ELSE nticks
       /\ db' = insert_conversation(
                  insert_conversation(db, ok1, clock, RoleUser, composed),
                  ok2, clock', RoleAssistant, reply)
       /\ dbio' = dbio \o
            << [ op |-> "insert", ok |-> ok1 /\ table /\ Persistent(config) ],
               [ op |-> "insert", ok |-> ok2 /\ table /\ Persistent(config) ] >>
  /\ pc' = "done"
  /\ UNCHANGED << table, tz, argv, config, new_prompt, search_phrase,
                  search_results, down, urls, messages, reply, net, printed,
                  composed, clipboard_content, db0, err >>
  /\ UNCHANGED excerpt

\* core.py:194-195: the user turn, then the assistant turn; the clock may
\* advance between the two.
Persist ==
  /\ pc = "persist"
  /\ \E ok1 \in BOOLEAN, ok2 \in BOOLEAN, d \in {0} \cup ClockSteps :
       /\ d # 0 => nticks < MaxTicks
       /\ clock' = clock + d
       /\ nticks' = IF d # 0 THEN nticks + 1 ELSE nticks
       /\ db' = insert_conversation(
                  insert_conversation(db, ok1, clock, RoleUser, new_prompt),
                  ok2, clock', RoleAssistant, reply)
       /\ dbio' = dbio \o
            << [ op |-> "insert", ok |-> ok1 /\ table /\ Persistent(config) ],
               [ op |-> "insert", ok |-> ok2 /\ table /\ Persistent(config) ] >>
  /\ pc' = "done"
  /\ UNCHANGED << table, tz, argv, config, new_prompt, search_phrase,
                  search_results, down, urls, messages, reply, net, printed,
                  composed, clipboard_content, db0, err >>
  /\ UNCHANGED excerpt

\* Time passes while the provider answers (the clock is read only at
\* core.py:172, 194 and 195).
Tick ==
  /\ pc = "send"
  /\ nticks < MaxTicks
  /\ \E d \in ClockSteps : clock' = clock + d
  /\ nticks' = nticks + 1
  /\ UNCHANGED << table, db, tz, argv, pc, invocation >>
  /\ UNCHANGED excerpt

Next ==
  \/ Start
  \/ RagAnswer
  \/ MakeSearchphrase
  \/ WebSearch
  \/ CheckLinks
  \/ FetchContents
  \/ Assemble
  \/ SendRequest
  \/ Persist
  \/ Tick

Spec == Init /\ [][Next]_vars

(***************************************************************************)
(* main (cli.py:6-75): the command line, the config file, the validation.  *)
(***************************************************************************)

\* The settings one command line may leave without a value: none, one, or all.
Missings == { {} } \cup { {s} : s \in Settings } \cup { Settings }

\* The settings the config file may give a value when the command line does
\* not: none, or one.
FromFile == { {} } \cup { {s} : s \in Settings }

MainPrompts == { << >>, << "h", "i" >> }

\* Command lines: `cli` holds the settings given as options, `config_file`
\* says --config-file was given, `file` holds the settings that file gives a
\* value other than the empty string.
Argvs ==
  { [ cli |-> Settings \ (m \cup f), config_file |-> cf,
      file |-> IF cf THEN f ELSE {},
      rag |-> fl[1], web_search |-> fl[2], follow_links |-> fl[3],
      prompt |-> p ] :
      m \in Missings, f \in FromFile, cf \in BOOLEAN,
      fl \in BOOLEAN \X BOOLEAN \X BOOLEAN, p \in MainPrompts }

\* cli.py:14-23 with utils.read_config (utils.py:294-320): the keys of the
\* config dict.  read_config returns every setting, with the empty string for
\* one the file leaves out (a file that does not exist leaves out all).
ConfigKeys(a) == a.cli \cup (IF a.config_file THEN Settings ELSE {})

\* The settings whose value in the config dict is the empty string.
Blank(a) == IF a.config_file THEN Settings \ (a.cli \cup a.file) ELSE {}

\* cli.py:8-71: the message main prints and returns on, "" when it goes on.
Validate(a) ==
  LET keys == ConfigKeys(a)
  IN  IF a.cli = {} /\ ~a.config_file THEN "No arguments detected"
      ELSE IF "log_file" \notin keys THEN "No log filepath specified"
      ELSE IF "db_file" \notin keys THEN "No database filepath specified"
      ELSE IF ~a.rag /\ "model" \notin keys THEN "No model name specified"
      ELSE IF ~a.rag /\ "provider_endpoint" \notin keys
        THEN "No provider endpoint specified"
      ELSE IF ~a.rag /\ "provider_api_key" \notin keys THEN "No api key specified"
      ELSE IF a.rag /\ "rag_doc_dir" \notin keys
        THEN "No documents directory specified"
      ELSE IF a.rag /\ "rag_endpoint" \notin keys THEN "No RAG endpoint specified"
      ELSE IF a.rag /\ "rag_embed_model" \notin keys
        THEN "No RAG embedding model specified"
      ELSE IF a.rag /\ "rag_answer_model" \notin keys
        THEN "No RAG answer model specified"
      ELSE IF a.rag /\ "rag_db_dir" \notin keys
        THEN "No RAG vector database directory specified"
      ELSE IF a.web_search /\ "search_api_key" \notin keys
        THEN "No search endpoint API key specified"
      ELSE IF a.follow_links /\ "page-reader-api-key" \notin keys
        THEN "No page reader endpoint API key specified"
      ELSE ""

\* cli.py:14-23: the config dict run_model gets.  The argparse defaults are
\* not None, so they replace what the file says (core.py:22, 24, 43, 45, 48).
ConfigOf(a) ==
  [ prompt |-> a.prompt, allow_clipboard |-> TRUE, rag |-> a.rag,
    web_search |-> a.web_search, follow_links |-> a.follow_links,
    conversation_timeout_minutes |-> DefaultTimeoutMinutes,
    system_role |-> << "A" >>,
    rag_excerpt_length |-> DefaultExcerptLength,
    rag_source_linkformat |-> "markdown",
    rag_doc_dir |-> IF "rag_doc_dir" \in Blank(a) THEN << >> ELSE DocDir,
    blank |-> Blank(a) ]

\* main(): it prints an error and returns, or calls run_model.
Main ==
  /\ pc = "main"
  /\ argv' \in Argvs
  /\ IF Validate(argv') # ""
       THEN /\ pc' = "rejected"
            /\ err' = Validate(argv')
            /\ UNCHANGED << table, db, clock, tz, nticks, config, new_prompt,
                            search_phrase, search_results, down, urls, messages,
                            reply, net, dbio, printed, composed,
                            clipboard_content, db0 >>
       ELSE RunModel(ConfigOf(argv'))
  /\ UNCHANGED excerpt

\* The store main may find: no file yet, or one earlier exchange.
MainStores ==
  { st \in PriorStores : st.rows = << >> \/ Len(st.rows) = 2 }

InitMain ==
  /\ \E st \in MainStores : table = st.table /\ db = st.rows
  /\ clock \in StartTimes
  /\ tz \in TzOffsets
  /\ nticks = 0
  /\ argv = NoArgv
  /\ pc = "main"
  /\ InitInvocation

\* main never lets --follow-links through (cli.py:69), so the link steps of
\* run_model are no steps of a run of main.
NextMain ==
  \/ Main
  \/ RagAnswer
  \/ MakeSearchphrase
  \/ WebSearch
  \/ Assemble
  \/ SendRequest
  \/ Persist
  \/ Tick

SpecMain == InitMain /\ [][NextMain]_vars

(***************************************************************************)
(* get_centered_excerpt called on its own (utils.py:264-280).              *)
(***************************************************************************)

MaxExcerptLength == 10

\* The lengths asked for: --rag-excerpt-length takes any integer.
ExcerptArgLengths == (0 - 2)..MaxExcerptLength

PangramText ==
  << "T", "h", "e", " ", "q", "u", "i", "c", "k", " ", "b", "r",
     "o", "w", "n", " ", "f", "o", "x", " ", "j", "u", "m", "p",
     "s", " ", "o", "v", "e", "r", " ", "t", "h", "e", " ", "l",
     "a", "z", "y", " ", "d", "o", "g" >>

ExcerptTexts ==
  { PangramText,
    << "a", " ", " ", "b", " ", "c" >>,
    << " ", "a", " ", "B", " " >>,
    << >> }

ExcerptAnswers ==
  { << "b", "r", "o", "w", "n", " ", "f", "o", "x" >>,
    << "B", "R", "O", "W", "N" >>,
    << "b" >>,
    << "z", "z" >>,
    << >> }

CallExcerpt ==
  /\ pc = "call"
  /\ \E text \in ExcerptTexts, answer \in ExcerptAnswers,
        length \in ExcerptArgLengths :
       excerpt' = Append(excerpt,
                         [ text |-> text, answer |-> answer, length |-> length,
                           result |-> get_centered_excerpt(text, answer, length) ])
  /\ pc' = "returned"
  /\ UNCHANGED << table, db, clock, tz, nticks, argv, config, new_prompt,
                  search_phrase, search_results, down, urls, messages, reply,
                  net, dbio, printed, composed, clipboard_content, db0, err >>

InitExcerpt ==
  /\ table = FALSE
  /\ db = << >>
  /\ clock \in StartTimes
  /\ tz = 0
  /\ nticks = 0
  /\ argv = NoArgv
  /\ pc = "call"
  /\ InitInvocation

NextExcerpt == CallExcerpt

SpecExcerpt == InitExcerpt /\ [][NextExcerpt]_vars

(***************************************************************************)
(* Properties.                                                             *)
(***************************************************************************)

\* The mode of an invocation as the specification ranks the flags: rag, then
\* web search, then link following, then plain.
Mode ==
  IF config.rag THEN "rag"
  ELSE IF config.web_search THEN "web-search"
  ELSE IF config.follow_links THEN "link-follow"
  ELSE "plain"

Started == pc \notin {"idle", "main", "rejected"}

Kinds == { net[i].kind : i \in DOMAIN net }

Callers == { net[i].by : i \in DOMAIN net }

NoStorageError == \A i \in DOMAIN dbio : dbio[i].ok

Inserts == { i \in DOMAIN dbio : dbio[i].op = "insert" }

IsPrefix(s, t) == Len(s) <= Len(t) /\ SubSeq(t, 1, Len(s)) = s

Turn(row) ==
  [ role |-> decode_base64(row.role), content |-> decode_base64(row.content) ]

\* C1: an invocation applies the augmentation of its mode and no other: rag
\* only the retrieval chain; web search only the search-phrase request and the
\* search, never a URL probe or a page fetch even when link following is also
\* set; link following only probes and page fetches; plain none of them.
C1_OneStrategy ==
  Started =>
    /\ (Mode = "rag") => (Kinds \subseteq {"rag"})
    /\ (Mode = "web-search") => (Kinds \subseteq {"chat", "search"})
    /\ (Mode = "link-follow") =>
         (Kinds \subseteq {"probe", "reader", "chat"} /\ Callers \subseteq
            {"check_for_unreachable", "get_page_text", "run_model"})
    /\ (Mode = "plain") => (Kinds \subseteq {"chat"} /\ Callers \subseteq {"run_model"})

\* C2: the store is append-only (every step leaves the rows it had, in place),
\* rows are added only once the reply is there, and a plain invocation that
\* ends with no storage error has added exactly two rows after the rows it
\* found: the user turn holding the composed prompt, then the assistant turn
\* holding the reply.
C2_AppendTwoTurns ==
  [][ /\ IsPrefix(db, db')
      /\ (db' # db) => (pc = "persist" /\ printed = << reply >>)
      /\ (pc' = "done" /\ Mode' = "plain" /\ NoStorageError') =>
           /\ Len(db') = Len(db0') + 2
           /\ SubSeq(db', 1, Len(db0')) = db0'
           /\ Turn(db'[Len(db0') + 1]) = [ role |-> RoleUser, content |-> composed' ]
           /\ Turn(db'[Len(db0') + 2]) = [ role |-> RoleAssistant, content |-> reply' ]
    ]_vars

C2_Witness ==
  /\ pc = "done"
  /\ Mode = "plain"
  /\ NoStorageError
  /\ db0 # << >>
  /\ Len(db) = Len(db0) + 2
  /\ clipboard_content # << >>

\* C3: when the chat-completion request of a non-rag invocation fails, the
\* invocation has ended, nothing was printed, and the store holds the rows it
\* held at the start, no append having been tried.
C3_FailedRequest ==
  (err = "provider") =>
    /\ pc = "aborted"
    /\ Mode # "rag"
    /\ printed = << >>
    /\ db = db0
    /\ Inserts = {}

C3_Witness ==
  /\ err = "provider"
  /\ Mode = "web-search"
  /\ db0 # << >>
  /\ net[Len(net)].by = "run_model"

UrlsOf(text) == { get_urls(text)[i] : i \in DOMAIN get_urls(text) }

\* C4: in link-follow mode, once the URLs of the composed prompt were probed
\* and one of them did not answer, the invocation has ended having sent
\* nothing but probes (no chat request, no page fetch) and having appended
\* nothing to the store.
C4_UnreachableAborts ==
  (Mode = "link-follow" /\ pc \notin {"idle", "links"}
     /\ UrlsOf(composed) \cap down # {}) =>
    /\ pc = "aborted"
    /\ err = "unreachable"
    /\ Kinds = {"probe"}
    /\ printed = << >>
    /\ db = db0
    /\ Inserts = {}

C4_Witness ==
  /\ Mode = "link-follow"
  /\ pc = "aborted"
  /\ down # {}
  /\ UrlsOf(composed) \ down # {}
  /\ get_urls(composed)[1] \notin down
  /\ db0 # << >>

\* C5: an invocation whose prompt and clipboard text are both empty ends with
\* the empty-prompt error having sent nothing, printed nothing and run no
\* storage operation at all.
C5_EmptyPromptNoIO ==
  (Started /\ config.prompt = << >> /\ clipboard_content = << >>) =>
    /\ pc = "aborted"
    /\ err = "empty"
    /\ net = << >>
    /\ printed = << >>
    /\ db = db0
    /\ dbio = << >>

\* The settings the mode of a command line requires.
Required(a) ==
  { "log_file", "db_file" }
  \cup (IF a.rag THEN RagSettings ELSE ProviderSettings)
  \cup (IF ~a.rag /\ a.web_search THEN { "search_api_key" } ELSE {})
  \cup (IF ~a.rag /\ ~a.web_search /\ a.follow_links
          THEN { "page_reader_api_key" } ELSE {})

\* A setting has a value from the command line or from the config file.
HasValue(a, s) == s \in a.cli \/ (a.config_file /\ s \in a.file)

\* C6: when a setting the mode requires has no value from the command line or
\* the config file, main has returned with an error, run_model was not
\* called: no storage operation was run and no request was sent.
C6_MissingRejected ==
  (pc # "main" /\ \E s \in Required(argv) : ~HasValue(argv, s)) =>
    /\ pc = "rejected"
    /\ err # ""
    /\ dbio = << >>
    /\ net = << >>

TurnsSince(rows, cutoff) ==
  LET kept == SelectSeq(rows, LAMBDA row : row.timestamp >= cutoff)
  IN  [ i \in 1..Len(kept) |-> Turn(kept[i]) ]

\* C8: the message list of a non-rag invocation is the system message, then
\* exactly the stored turns stamped no earlier than timeout_minutes before
\* now, in stored order, then the user message holding the new user turn;
\* now being read on the clock that stamps the turns (here before that clock
\* has moved on).
C8_MessageWindow ==
  (pc = "send" /\ nticks = 0) =>
    messages =
      << [ role |-> RoleSystem, content |-> config.system_role ] >>
      \o TurnsSince(db, clock - 60 * config.conversation_timeout_minutes)
      \o << [ role |-> RoleUser, content |-> new_prompt ] >>

\* The cutoffs at and next to every stored timestamp, and the present.
Cutoffs ==
  { db[i].timestamp + d : i \in DOMAIN db, d \in {-1, 0, 1} } \cup {clock}

C10_SearchFailureGoesOn ==
  (Mode = "web-search" /\ "search" \in Kinds
     /\ (search_phrase = << >> \/ search_results = EmptyDict)) =>
    /\ (pc = "aborted") => (err \in {"storage", "provider"})
    /\ \E today \in Dates :
         new_prompt = WebPrompt(composed, today, search_results)
    /\ (pc \in {"send", "persist", "done"}) =>
         (messages[Len(messages)].content = new_prompt)
    /\ (pc = "done" /\ NoStorageError) =>
         /\ Len(db) = Len(db0) + 2
         /\ Turn(db[Len(db) - 1]) = [ role |-> RoleUser, content |-> new_prompt ]
         /\ Turn(db[Len(db)]) = [ role |-> RoleAssistant, content |-> reply ]

\* The answer occurs in the text at 0-based index i, letter case aside.
OccursAt(t, a, i) ==
  /\ i + Len(a) <= Len(t)
  /\ \A k \in 1..Len(a) : LowerChar(t[i + k]) = LowerChar(a[k])

FirstIndex(t, a) ==
  CHOOSE i \in 0..Len(t) :
    OccursAt(t, a, i) /\ \A j \in 0..(i - 1) : ~OccursAt(t, a, j)

\* The characters of t at the 0-based positions lo, ..., hi - 1.
Window(t, lo, hi) ==
  LET n == Max(Min(hi, Len(t)) - lo, 0)
  IN  [ k \in 1..n |-> t[lo + k] ]

\* t from its first to its last character that is no white space.
Trimmed(t) ==
  LET keep == { i \in 1..Len(t) : ~IsSpace(t[i]) }
  IN  IF keep = {} THEN << >>
      ELSE SubSeq(t, CHOOSE i \in keep : \A j \in keep : i <= j,
                     CHOOSE i \in keep : \A j \in keep : i >= j)

\* The excerpt around the first occurrence of the answer: the trimmed window
\* of the given length starting half a length before it, with "..." on each
\* side where the window does not reach the end of the text.
Centered(t, a, n) ==
  LET start == Max(FirstIndex(t, a) - (n \div 2), 0)
  IN  (IF start > 0 THEN Ellipsis ELSE << >>)
      \o Trimmed(Window(t, start, start + n))
      \o (IF start + n < Len(t) THEN Ellipsis ELSE << >>)

\* C11 as stated: for every text, answer and length, the excerpt is the
\* centered one when the answer occurs, and otherwise the first length
\* characters of the text, as they are, followed by "..." exactly when the
\* text is longer than length.
C11_ExcerptAsStated ==
  \A i \in DOMAIN excerpt :
    LET e == excerpt[i]
    IN  IF \E k \in 0..Len(e.text) : OccursAt(e.text, e.answer, k)
          THEN e.result = Centered(e.text, e.answer, e.length)
          ELSE e.result = Window(e.text, 0, e.length)
                          \o (IF Len(e.text) > e.length THEN Ellipsis ELSE << >>)

\* C11, amended: for every text and answer and every length >= 0, the excerpt
\* is the centered one when the answer occurs, and otherwise the first length
\* characters of the text, trimmed of white space at both ends, followed by
\* "..." exactly when the text is longer than length.
C11_Excerpt ==
  \A i \in DOMAIN excerpt :
    LET e == excerpt[i]
    IN  (e.length >= 0) =>
          IF \E k \in 0..Len(e.text) : OccursAt(e.text, e.answer, k)
            THEN e.result = Centered(e.text, e.answer, e.length)
            ELSE e.result = Trimmed(Window(e.text, 0, e.length))
                            \o (IF Len(e.text) > e.length THEN Ellipsis ELSE << >>)

C11_Witness ==
  \E i \in DOMAIN excerpt :
    /\ excerpt[i].text = PangramText
    /\ excerpt[i].answer = << "b", "r", "o", "w", "n", " ", "f", "o", "x" >>
    /\ excerpt[i].length = 10
    /\ excerpt[i].result =
         << ".", ".", ".", "u", "i", "c", "k", " ", "b", "r", "o", "w", "n",
            ".", ".", "." >>

\* The requests the chat-completion endpoint has received: those of run_model
\* (the message list) and those of make_searchphrase.
MainRequests ==
  { i \in DOMAIN net : net[i].kind = "chat" /\ net[i].by = "run_model" }

PhraseRequests ==
  { i \in DOMAIN net : net[i].kind = "chat" /\ net[i].by = "make_searchphrase" }

\* C12 as stated: the chat-completion endpoint never receives a request in
\* rag mode nor a second one in any other mode, and an invocation of another
\* mode that completes has sent exactly one.
C12_OneRequestAsStated ==
  Started =>
    /\ Cardinality(MainRequests \cup PhraseRequests)
         <= (IF Mode = "rag" THEN 0 ELSE 1)
    /\ (pc = "done" /\ Mode # "rag") =>
         (Cardinality(MainRequests \cup PhraseRequests) = 1)

\* C12, amended: an invocation that completes has sent the chat-completion
\* endpoint exactly one request in plain and link-follow mode, exactly two in
\* web-search mode (the search-phrase request, then the request carrying the
\* message list) and none in rag mode; no invocation sends more than that;
\* and no request is sent again: after the main request failed nothing more
\* is sent, and a search-phrase request that came back empty stays the only
\* one.
C12_Requests ==
  Started =>
    /\ Cardinality(MainRequests) <= 1
    /\ Cardinality(PhraseRequests) <= (IF Mode = "web-search" THEN 1 ELSE 0)
    /\ (Mode = "rag") => (MainRequests = {})
    /\ \A i \in PhraseRequests : \A j \in MainRequests : i < j
    /\ (pc = "done" /\ Mode # "rag") =>
         /\ Cardinality(MainRequests) = 1
         /\ (Mode = "web-search") => (Cardinality(PhraseRequests) = 1)
    /\ (err = "provider") =>
         (Cardinality(MainRequests) = 1 /\ Len(net) \in MainRequests
            /\ pc = "aborted")
    /\ ("search" \in Kinds) => (Cardinality(PhraseRequests) = 1)

C12_Witness ==
  /\ pc = "done"
  /\ Mode = "web-search"
  /\ search_phrase = << >>
  /\ Cardinality(PhraseRequests) = 1
  /\ Cardinality(MainRequests) = 1

\* The rows an invocation has added to the rows it found.
Added == SubSeq(db, Len(db0) + 1, Len(db))

\* C13: whatever appends failed, an invocation leaves the rows it found in
\* place and adds either nothing or its user turn immediately followed by its
\* assistant turn: never an assistant turn without the user turn before it,
\* never a user turn without the assistant turn after it.
C13_AdjacentPairs ==
  (pc = "done") =>
    /\ IsPrefix(db0, db)
    /\ \/ Added = << >>
       \/ /\ Len(Added) = 2
          /\ decode_base64(Added[1].role) = RoleUser
          /\ decode_base64(Added[2].role) = RoleAssistant

\* The texts the templates of core.py:137-146 and 159-170 make of a prompt,
\* given the search results received and the URLs found.
WebWrapped(p) == { WebPrompt(p, today, search_results) : today \in Dates }

LinkWrapped(p) ==
  { LinkPrompt(p, get_url_contents(urls, contents)) :
      contents \in [ 1..Len(urls) -> PageTexts \cup { << >> } ] }

Wrapped ==
  IF config.web_search /\ config.follow_links
    THEN UNION { LinkWrapped(w) : w \in WebWrapped(composed) }
  ELSE IF config.web_search THEN WebWrapped(composed)
  ELSE IF config.follow_links THEN LinkWrapped(composed)
  ELSE { composed }

\* C14: when an invocation that is not in rag mode completes and its user
\* turn was stored, the content of that turn is the content of the last
\* message of the request sent; in web-search and link-follow mode that is the
\* prompt wrapped in the mode's template and differs from the composed
\* prompt, in plain mode it is the composed prompt; and that stored turn,
\* which decodes to this same text, is among the rows a later invocation
\* selects from the turn's timestamp on.
C14_StoredIsSent ==
  (pc = "done" /\ Mode # "rag" /\ dbio[Len(dbio) - 1].ok) =>
    LET row == db[Len(db0) + 1]
        sent == messages[Len(messages)]
        later == SelectRows(db, row.timestamp)
    IN  /\ sent.role = RoleUser
        /\ Turn(row) = sent
        /\ \A i \in MainRequests : net[i].arg = sent.content
        /\ sent.content \in Wrapped
        /\ (Mode # "plain") <=> (sent.content # composed)
        /\ \E i \in DOMAIN later : later[i] = row

C14_Witness ==
  /\ pc = "done"
  /\ config.web_search /\ ~config.follow_links /\ ~config.rag
  /\ search_results # EmptyDict
  /\ dbio[Len(dbio) - 1].ok
  /\ Turn(db[Len(db0) + 1]).content = new_prompt
  /\ new_prompt # composed
  /\ db0 # << >>

\* Every setting one of the options selected asks for.
RequiredByFlags(a) ==
  { "log_file", "db_file" }
  \cup (IF a.rag THEN RagSettings ELSE ProviderSettings)
  \cup (IF a.web_search THEN { "search_api_key" } ELSE {})
  \cup (IF a.follow_links THEN { "page_reader_api_key" } ELSE {})

\* C15: main rejects a command line only when a setting its options require
\* has no value from the command line or the config file; when link
\* following is requested and every such setting, the page-reader API key
\* included, has a value, main has not rejected the command line and
\* run_model has been called (its first step, setup_database, has run).
C15_RejectsOnlyMissing ==
  (pc # "main") =>
    /\ (pc = "rejected") =>
         (\E s \in RequiredByFlags(argv) : ~HasValue(argv, s))
    /\ (argv.follow_links /\ \A s \in RequiredByFlags(argv) : HasValue(argv, s)) =>
         (pc # "rejected" /\ dbio # << >>)
====
